---- MODULE Spec2Model ----
(***************************************************************************)
(* A model of forkan's variational autoencoders: forkan.models.vae.VAE and *)
(* forkan.models.retrain_vae.RetrainVAE.                                   *)
(*                                                                         *)
(* Spec       the training loop of train(), step by step                   *)
(* SpecInfer  _preprocess_batch and decode as functions of their input     *)
(* SpecLife   construction, save, load and teardown of instances           *)
(* SpecLoss   the losses as functions of the latent statistics              *)
(* SpecHyper  the hyperparameters an instance is built with and holds       *)
(*                                                                         *)
(* An array is a record [shape, cells]: its numpy shape, and its content   *)
(* cut along the first axis, each cell listing the values of that slice.   *)
(* Weights, losses and timestamps are abstract values.                     *)
(***************************************************************************)
EXTENDS Integers, Sequences, FiniteSets, Bags, TLC

VARIABLES
    vae,             \* the instance train() / encode / decode is called on
    dataset,         \* the caller's array, shuffled in place by train()
    pc,              \* where the call is
    batch_size, num_episodes, num_samples,   \* train(): arguments and locals
    ep, n, idx, nb, x,
    csv_header, csv, \* progress.csv: number of columns, rows
    saves,           \* checkpoints written, in order
    steps,           \* gradient steps run by the current train() call
    fed, sizes,      \* rows fed in the current epoch; the size of each batch
    samples,         \* the samples the caller put in the dataset
    calls, budget, log_start,
    print_freq, eta, \* train(): print_freq, and the last progress summary
    arg, ret,        \* SpecInfer: the input of the call and its outcome
    fs, obj, sess    \* SpecLife: files, instances, sessions

trainVars == <<vae, dataset, pc, batch_size, num_episodes, num_samples, ep, n,
               idx, nb, x, csv_header, csv, saves, steps, fed, sizes, samples,
               calls, budget, log_start, print_freq, eta>>
inferVars == <<arg, ret>>
lifeVars == <<fs, obj, sess>>
vars == <<trainVars, inferVars, lifeVars>>

---------------------------------------------------------------------------
(* Bounds of the model *)
MaxInstances == 2
MaxWeight == 4
MaxSamples == 3
MaxBatch == 3
MaxEpochs == 2
MaxCalls == 2
MaxLatent == 2
ImgH == 2
MaxExamples == 2

(* Program constants *)
NoneDim == -1
DuFrames == 5
DuSide == 64

Min(a, b) == IF a < b THEN a ELSE b
Max(a, b) == IF a > b THEN a ELSE b

---------------------------------------------------------------------------
(* numpy *)

Rank(a) == Len(a.shape)

RECURSIVE Flatten(_)
Flatten(cells) ==
    IF cells = <<>> THEN <<>> ELSE Head(cells) \o Flatten(Tail(cells))

RECURSIVE SeqMax(_)
SeqMax(s) == IF Len(s) = 1 THEN s[1] ELSE Max(s[1], SeqMax(Tail(s)))

\* np.max(a), a non-empty
NpMax(a) == SeqMax(Flatten(a.cells))

\* len(a)
PyLen(a) == a.shape[1]

\* np.expand_dims(a, axis=0): a becomes the single slice of the new first axis
ExpandDimsFirst(a) ==
    [shape |-> <<1>> \o a.shape, cells |-> <<Flatten(a.cells)>>]

\* np.expand_dims(a, axis=-1), a of rank >= 1: every slice keeps its values
ExpandDimsLast(a) == [shape |-> a.shape \o <<1>>, cells |-> a.cells]

\* s[lo:hi] of Python, 0 <= lo, 0 <= hi: both ends are clamped to len(s)
PySlice(s, lo, hi) == SubSeq(s, Min(lo, Len(s)) + 1, Min(hi, Len(s)))

\* a[lo:hi, ...]
ArraySlice(a, lo, hi) ==
    LET c == PySlice(a.cells, lo, hi)
    IN  [shape |-> <<Len(c)>> \o Tail(a.shape), cells |-> c]

\* the arrays np.random.shuffle(a) can leave in a: it reorders the first axis
Shuffled(a) ==
    { [a EXCEPT !.cells = [i \in 1..Len(a.cells) |-> a.cells[p[i]]]] :
        p \in Permutations(1..Len(a.cells)) }

\* a Python tuple and a Python list never compare equal
PyTuple(dims) == [py |-> "tuple", dims |-> dims]
PyList(dims) == [py |-> "list", dims |-> dims]
PyTail(v) == [py |-> v.py, dims |-> Tail(v.dims)]

\* a.shape == v, a.shape being a tuple
ShapeEquals(shape, v) == v.py = "tuple" /\ v.dims = shape

\* tf.Session.run refuses a feed whose shape the fed tensor's static shape
\* does not admit (None admits any size)
FeedCompatible(static, shape) ==
    /\ Len(static) = Len(shape)
    /\ \A i \in 1..Len(static) : static[i] = NoneDim \/ static[i] = shape[i]

---------------------------------------------------------------------------
(* Construction: the attributes __init__ leaves on the instance *)

\* params = locals() as json.dump writes it: a tuple is written as a list
VAEParams(input_shape, latent_dim) ==
    [input_shape |-> IF Len(input_shape) = 2 THEN input_shape \o <<1>>
                     ELSE input_shape,
     latent_dim |-> latent_dim]

\* the same for RetrainVAE.__init__
RetrainParams(input_shape, latent_dim, k) ==
    [input_shape |-> input_shape, latent_dim |-> latent_dim, k |-> k]

\* VAE.__init__; loaded is <<>> (load_from is None) or <<params>>, the
\* params.json read back, whose keys setattr copies over the attributes
VAEInit(input_shape, latent_dim, loaded) ==
    LET shape3 == IF Len(input_shape) = 2 THEN input_shape \o <<1>>
                  ELSE input_shape
        own == PyTuple(<<NoneDim>> \o shape3)
        ishape == IF loaded = <<>> THEN own ELSE PyList(loaded[1].input_shape)
        ldim == IF loaded = <<>> THEN latent_dim ELSE loaded[1].latent_dim
    IN  [cls |-> "VAE", input_shape |-> ishape, latent_dim |-> ldim, k |-> 1,
         x_shape |-> ishape.dims, z_dim |-> ldim]

\* RetrainVAE.__init__: the graph is built from the constructor's arguments,
\* and _load_base_weights with with_attrs then copies params.json over the
\* attributes; loaded is <<>> (with_attrs unset) or <<params>>
RetrainInit(input_shape, latent_dim, k, loaded) ==
    LET own == PyTuple(<<NoneDim>> \o input_shape)
    IN  [cls |-> "RetrainVAE",
         input_shape |-> IF loaded = <<>> THEN own
                         ELSE PyList(loaded[1].input_shape),
         latent_dim |-> IF loaded = <<>> THEN latent_dim
                        ELSE loaded[1].latent_dim,
         k |-> IF loaded = <<>> \/ "k" \notin DOMAIN loaded[1] THEN k
               ELSE loaded[1].k,
         x_shape |-> <<NoneDim, k>> \o Tail(own.dims),
         z_dim |-> latent_dim]

---------------------------------------------------------------------------
(* Inference API *)

Returned(val) == [err |-> "", val |-> val, ran |-> FALSE]
Raised(err) == [err |-> err, val |-> <<>>, ran |-> FALSE]
\* the outcome of a call that ran the graph on val
Ran(val) == [err |-> "", val |-> val, ran |-> TRUE]

\* the rank completion shared by both classes
CompleteShape(self, batch) ==
    IF Rank(batch) = 2 THEN ExpandDimsFirst(ExpandDimsLast(batch))
    ELSE IF Rank(batch) = 3
         THEN IF ShapeEquals(batch.shape, PyTail(self.input_shape))
              THEN ExpandDimsFirst(batch)
              ELSE ExpandDimsLast(batch)
         ELSE batch

VAEPreprocessBatch(self, batch) ==
    LET b == CompleteShape(self, batch)
    IN  IF Rank(b) = 4 THEN Returned(b)
        ELSE Raised("AssertionError: batch shape mismatch")

RetrainPreprocessBatch(self, batch) ==
    IF NpMax(batch) > 1 THEN Raised("AssertionError: normalise input first!")
    ELSE LET b == IF Rank(batch) # 4 THEN CompleteShape(self, batch)
                  ELSE batch
         IN  IF Rank(b) = 4 THEN Returned(b)
             ELSE Raised("AssertionError: batch shape mismatch")

PreprocessBatch(self, batch) ==
    IF self.cls = "VAE" THEN VAEPreprocessBatch(self, batch)
    ELSE RetrainPreprocessBatch(self, batch)

VAEDecode(self, zs) ==
    LET z == IF Rank(zs) = 1 THEN ExpandDimsFirst(zs) ELSE zs
    IN  IF Rank(z) # 2 THEN Raised("AssertionError: z batch shape mismatch")
        ELSE IF z.shape[Len(z.shape)] # self.latent_dim
             THEN Raised("AssertionError: vae has latent space of")
             ELSE Ran(z)

\* RetrainVAE.decode feeds mus and logvs to the session as they come
RetrainDecode(self, mus, logvs) ==
    IF /\ FeedCompatible(<<NoneDim, self.z_dim>>, mus.shape)
       /\ FeedCompatible(<<NoneDim, self.z_dim>>, logvs.shape)
    THEN Ran(mus)
    ELSE Raised("ValueError: Cannot feed value of shape")

---------------------------------------------------------------------------
(* train(): the inputs *)

CodeLen == MaxSamples + ImgH
\* slices with pairwise different content, all values in [0,1]
Code(i) == [j \in 1..CodeLen |-> IF j = i THEN 1 ELSE 0]
Blank == [j \in 1..CodeLen |-> 0]
Cells(m, distinct) == [i \in 1..m |-> IF distinct THEN Code(i) ELSE Blank]

\* a with its first value replaced
Spoil(a, val) == [a EXCEPT !.cells[1][1] = val]

\* the instances trained: VAE built from a (H, W) or a (H, W, C) input shape,
\* RetrainVAE with the shape of its __main__ and with a smaller one
TrainedInstances ==
    {VAEInit(<<ImgH, ImgH>>, MaxLatent, <<>>),
     VAEInit(<<ImgH, ImgH, 3>>, MaxLatent, <<>>),
     RetrainInit(<<DuSide, DuSide, 1>>, MaxLatent, DuFrames, <<>>),
     RetrainInit(<<ImgH, ImgH, 1>>, MaxLatent, 1, <<>>)}

\* per-sample shape of the instance's placeholder
SampleShape(self) == Tail(self.x_shape)

\* the datasets handed to train(self, .): [array, samples], samples being
\* the samples the caller put in: a rank-2 or rank-3 single image is one
\* sample whose first axis holds its lines. A rank-3 batch of grayscale
\* images is a dataset of a one-channel instance only: for an instance of
\* C > 1 channels an array of shape (H, W, C) is one frame
DatasetsFor(self, distinct) ==
    LET batches ==
            { [array |-> [shape |-> <<m>> \o SampleShape(self),
                          cells |-> Cells(m, distinct)],
               samples |-> Cells(m, distinct)] : m \in 1..MaxSamples }
        gray ==
            { [array |-> [shape |-> <<m, ImgH, ImgH>>,
                          cells |-> Cells(m, distinct)],
               samples |-> Cells(m, distinct)] : m \in 1..MaxSamples }
        singles ==
            { [array |-> [shape |-> shp, cells |-> Cells(ImgH, distinct)],
               samples |-> <<Flatten(Cells(ImgH, distinct))>>] :
              shp \in {SampleShape(self), <<ImgH, ImgH>>} }
        stacked ==
            { [array |-> [shape |-> <<1, 1>> \o SampleShape(self),
                          cells |-> Cells(1, distinct)],
               samples |-> Cells(1, distinct)] }
    IN  IF self.cls = "VAE" /\ distinct
        THEN batches \cup singles \cup stacked
             \cup (IF self.x_shape[Len(self.x_shape)] = 1 THEN gray ELSE {})
        ELSE batches

\* the same dataset with one value above 1 or below 0
Spoiled(d) ==
    { [d EXCEPT !.array = Spoil(d.array, val),
                !.samples = IF Len(d.samples) = Len(d.array.cells)
                            THEN Spoil(d.array, val).cells
                            ELSE <<Flatten(Spoil(d.array, val).cells)>>] :
      val \in {2, -1} }

---------------------------------------------------------------------------
(* train(): the loop *)

IdleInfer == arg = <<>> /\ ret = <<>>
IdleLife == fs = <<>> /\ obj = <<>> /\ sess = <<>>

\* the instance is built and the caller holds a dataset. Datasets of
\* pairwise different samples are trained by one call; datasets of equal
\* samples, which a shuffle leaves as they are, by up to MaxCalls calls
Init ==
    /\ vae \in TrainedInstances
    /\ \E distinct \in BOOLEAN :
         /\ budget = IF distinct THEN 1 ELSE MaxCalls
         /\ \E d \in DatasetsFor(vae, distinct) :
              \E e \in IF distinct THEN {d} \cup Spoiled(d) ELSE {d} :
                 dataset = e.array /\ samples = e.samples
    /\ pc = "ready"
    /\ batch_size = 0 /\ num_episodes = 0 /\ num_samples = 0
    /\ ep = 0 /\ n = 0 /\ idx = 0 /\ nb = 0 /\ x = <<>>
    \* VAE.__init__ opens progress.csv; RetrainVAE opens it in train()
    /\ csv_header = IF vae.cls = "VAE" THEN 5 + vae.latent_dim ELSE 0
    /\ csv = <<>>
    /\ saves = <<>> /\ steps = 0 /\ fed = <<>> /\ sizes = <<>>
    /\ calls = 0 /\ log_start = 0
    /\ print_freq = 0 /\ eta = <<>>
    /\ IdleInfer /\ IdleLife

\* the shape of the array RetrainVAE.train feeds to reconstruct_stacked
DuShape == <<1, DuFrames, DuSide, DuSide, 1>>

\* a slice that stops one row early
BatchSliceShort(a, i, size, total) ==
    ArraySlice(a, i, Min(i + size, total) - 1)

\* x = dataset[idx:min(idx+batch_size, num_samples), ...]
BatchSlice(a, i, size, total) == ArraySlice(a, i, Min(i + size, total))

\* a row holding the per-dimension KLs as one field
RowKlsAsOneField(episode, batch, kls) ==
    <<"date", episode, batch, "loss", "kl-loss", "kls">>

\* the row csv.writeline is given
Row(episode, batch, kls) ==
    <<"date", episode, batch, "loss", "kl-loss">> \o [j \in 1..kls |-> "kl"]

\* CSVLogger(path, *header) on a progress.csv holding rows: the log is
\* append-only, the rows written before stay
CsvOpen(rows, header) == rows

\* CSVLogger.writeline(*values): one row appended
CsvWriteline(rows, row) == Append(rows, row)

\* train() up to the epoch loop
TrainCall(B, E, F) ==
    /\ pc \in {"ready", "done"}
    /\ calls < budget
    /\ calls' = calls + 1
    /\ batch_size' = B /\ num_episodes' = E /\ print_freq' = F
    /\ eta' = <<>>
    /\ num_samples' = PyLen(dataset)
    /\ log_start' = Len(csv)
    /\ saves' = <<>> /\ steps' = 0 /\ fed' = <<>> /\ sizes' = <<>>
    /\ ep' = 0 /\ n' = 0 /\ idx' = 0 /\ x' = <<>>
    /\ LET pre == IF vae.cls = "VAE" /\ Rank(dataset) # 4
                  THEN VAEPreprocessBatch(vae, dataset)
                  ELSE Returned(dataset)
       IN  IF NpMax(dataset) > 1 \/ pre.err # ""
           THEN pc' = "failed" /\ UNCHANGED <<dataset, nb, csv_header>>
           ELSE /\ dataset' = pre.val
                /\ nb' = 1
                /\ csv_header' = IF vae.cls = "VAE" THEN csv_header
                                 ELSE 5 + vae.latent_dim
                /\ pc' = "epoch"
    /\ csv' = IF vae.cls = "VAE" THEN csv ELSE CsvOpen(csv, csv_header')
    /\ UNCHANGED <<vae, samples, budget, inferVars, lifeVars>>

\* for ep in range(num_episodes): np.random.shuffle(dataset)
EpochStart ==
    /\ pc = "epoch"
    /\ dataset' \in Shuffled(dataset)
    /\ n' = 0 /\ idx' = 0 /\ fed' = <<>> /\ sizes' = <<>>
    /\ pc' = "batch"
    /\ UNCHANGED <<vae, batch_size, num_episodes, num_samples, ep, nb, x,
                   csv_header, csv, saves, steps, samples, calls, budget,
                   log_start, print_freq, eta, inferVars,
                   lifeVars>>

\* the slice and the session run of train_op on it
GradStep ==
    /\ pc = "batch"
    /\ x' = BatchSlice(dataset, idx, batch_size, num_samples)
    /\ IF FeedCompatible(vae.x_shape, x'.shape)
       THEN /\ steps' = steps + 1
            /\ fed' = fed \o x'.cells
            /\ sizes' = Append(sizes, Len(x'.cells))
            /\ pc' = "log"
       ELSE pc' = "failed" /\ UNCHANGED <<steps, fed, sizes>>
    /\ UNCHANGED <<vae, dataset, batch_size, num_episodes, num_samples, ep, n,
                   idx, nb, csv_header, csv, saves, samples, calls, budget,
                   log_start, print_freq, eta, inferVars,
                   lifeVars>>

\* the values of print_freq train() is called with; -1 is no summary
PrintFreqs == {-1, 1, 2}

\* RetrainVAE.train: total_batches, perc and steps2go of the progress summary
ProgressSummary(samples_, size, episodes, batches) ==
    LET total_batches == (samples_ \div size) * episodes
    IN  IF total_batches = 0
        THEN [err |-> "ZeroDivisionError", total_batches |-> 0,
              nb |-> batches, perc |-> 0, steps2go |-> 0]
        ELSE [err |-> "", total_batches |-> total_batches, nb |-> batches,
              perc |-> (batches * 100) \div total_batches,
              steps2go |-> total_batches - batches]

\* nb += 1, csv.writeline, and in RetrainVAE the progress summary and the
\* reconstruction of du; then the next index of the batch loop
LogRow ==
    /\ pc = "log"
    /\ nb' = nb + 1
    /\ csv' = CsvWriteline(csv, Row(ep, nb', vae.z_dim))
    /\ LET shown == /\ vae.cls = "RetrainVAE"
                    /\ print_freq # -1
                    /\ n % print_freq = 0
           summary == ProgressSummary(num_samples, batch_size, num_episodes,
                                      nb')
       IN  /\ eta' = IF shown THEN <<summary>> ELSE eta
           /\ IF \/ shown /\ summary.err # ""
                 \/ vae.cls = "RetrainVAE"
                    /\ ~FeedCompatible(vae.x_shape, DuShape)
              THEN pc' = "failed" /\ UNCHANGED <<n, idx>>
              ELSE /\ n' = n + 1
                   /\ idx' = idx + batch_size
                   /\ pc' = IF idx' < num_samples THEN "batch" ELSE "save"
    /\ UNCHANGED <<vae, dataset, batch_size, num_episodes, num_samples, ep, x,
                   csv_header, saves, steps, fed, sizes, samples, calls,
                   budget, log_start, print_freq, inferVars, lifeVars>>

\* an epoch that closes without a checkpoint
EpochSaveSkipped ==
    /\ pc = "save"
    /\ ep' = ep + 1
    /\ pc' = IF ep' < num_episodes THEN "epoch"
             ELSE IF vae.cls = "RetrainVAE" THEN "final" ELSE "done"
    /\ UNCHANGED <<vae, dataset, batch_size, num_episodes, num_samples, n, idx,
                   nb, x, csv_header, csv, saves, steps, fed, sizes, samples,
                   calls, budget, log_start, print_freq, eta, inferVars,
                   lifeVars>>

\* self._save() / self.save() closing the epoch
EpochSave ==
    /\ pc = "save"
    /\ saves' = Append(saves, [at |-> "epoch", ep |-> ep, steps |-> steps])
    /\ ep' = ep + 1
    /\ pc' = IF ep' < num_episodes THEN "epoch"
             ELSE IF vae.cls = "RetrainVAE" THEN "final" ELSE "done"
    /\ UNCHANGED <<vae, dataset, batch_size, num_episodes, num_samples, n, idx,
                   nb, x, csv_header, csv, steps, fed, sizes, samples, calls,
                   budget, log_start, print_freq, eta, inferVars,
                   lifeVars>>

\* RetrainVAE.train: self.save() after the loop
FinalSave ==
    /\ pc = "final"
    /\ saves' = Append(saves, [at |-> "return", ep |-> ep, steps |-> steps])
    /\ pc' = "done"
    /\ UNCHANGED <<vae, dataset, batch_size, num_episodes, num_samples, ep, n,
                   idx, nb, x, csv_header, csv, steps, fed, sizes, samples,
                   calls, budget, log_start, print_freq, eta, inferVars,
                   lifeVars>>

Next ==
    \/ \E B \in 1..MaxBatch, E \in 1..MaxEpochs, F \in PrintFreqs :
         TrainCall(B, E, F)
    \/ EpochStart
    \/ GradStep
    \/ LogRow
    \/ EpochSave
    \/ FinalSave

Spec == Init /\ [][Next]_vars

---------------------------------------------------------------------------
(* The inference API as functions of the instance and the input *)

IdleTrain ==
    /\ dataset = <<>> /\ pc = "ready"
    /\ batch_size = 0 /\ num_episodes = 0 /\ num_samples = 0
    /\ ep = 0 /\ n = 0 /\ idx = 0 /\ nb = 0 /\ x = <<>>
    /\ csv_header = 0 /\ csv = <<>> /\ saves = <<>> /\ steps = 0
    /\ fed = <<>> /\ sizes = <<>> /\ samples = <<>>
    /\ calls = 0 /\ budget = 0 /\ log_start = 0
    /\ print_freq = 0 /\ eta = <<>>

\* instances built from constructor arguments, and instances that read the
\* params.json of a run with the same hyperparameters
InferInstances ==
    UNION { {VAEInit(shp, ld, <<>>), VAEInit(shp, ld, <<VAEParams(shp, ld)>>)} :
            shp \in {<<ImgH, ImgH>>, <<ImgH, ImgH, 3>>}, ld \in 1..MaxLatent }
    \cup
    UNION { {RetrainInit(shp, ld, 1, <<>>),
             RetrainInit(shp, ld, 1, <<RetrainParams(shp, ld, 1)>>)} :
            shp \in {<<ImgH, ImgH, 1>>, <<ImgH, ImgH, 3>>}, ld \in 1..MaxLatent }

Filled(shape) ==
    [shape |-> shape,
     cells |-> IF shape = <<>> THEN <<<<0>>>> ELSE Cells(shape[1], TRUE)]

\* arrays of rank 0 to 5
BatchInputs ==
    { Filled(shape) :
        shape \in {<<>>, <<ImgH>>, <<ImgH, ImgH>>, <<ImgH, ImgH, 1>>,
                   <<ImgH, ImgH, 3>>, <<1, 1, ImgH, ImgH, 1>>}
                  \cup { <<m, ImgH, ImgH>> : m \in 1..MaxSamples }
                  \cup { <<m, ImgH, ImgH, 1>> : m \in 1..MaxSamples }
                  \cup { <<m, ImgH, ImgH, 3>> : m \in 1..MaxSamples } }

RECURSIVE Prod(_)
Prod(s) == IF s = <<>> THEN 1 ELSE Head(s) * Prod(Tail(s))

Latents(shape) ==
    [shape |-> shape,
     cells |-> IF shape = <<>> THEN <<<<0>>>>
               ELSE [i \in 1..shape[1] |-> [j \in 1..Prod(Tail(shape)) |-> i]]]

\* latents of rank 0 to 3, as wide as latent_dim or not
LatentInputs ==
    { Latents(shape) :
        shape \in {<<>>} \cup { <<w>> : w \in 1..(MaxLatent + 1) }
                  \cup { <<m, w>> : m \in 1..2, w \in 1..(MaxLatent + 1) }
                  \cup { <<1, 1, w>> : w \in 1..(MaxLatent + 1) } }

InitInfer ==
    /\ vae \in InferInstances
    /\ arg = <<>> /\ ret = <<>>
    /\ IdleTrain /\ IdleLife

PreprocessCall(batch) ==
    /\ arg' = [op |-> "_preprocess_batch", in |-> batch]
    /\ ret' = PreprocessBatch(vae, batch)
    /\ UNCHANGED <<trainVars, lifeVars>>

DecodeCall(zs) ==
    /\ arg' = [op |-> "decode", in |-> zs]
    /\ ret' = IF vae.cls = "VAE" THEN VAEDecode(vae, zs)
              ELSE RetrainDecode(vae, zs, zs)
    /\ UNCHANGED <<trainVars, lifeVars>>

NextInfer ==
    \/ \E batch \in BatchInputs \cup { Spoil(b, 2) : b \in BatchInputs } :
         PreprocessCall(batch)
    \/ \E zs \in LatentInputs : DecodeCall(zs)

SpecInfer == InitInfer /\ [][NextInfer]_vars

---------------------------------------------------------------------------
(* Construction, persistence and teardown. The variables of a graph live in *)
(* a session: sess[s].w is <<>> while they are uninitialised, <<w>> after.   *)

Instances == 1..MaxInstances
\* an instance holds one session
Sessions == 1..MaxInstances

\* the run directory of VAE, the one of RetrainVAE, and chosen_path/init_from
Dirs == {"vae_run", "rl_run", "chosen"}
\* Saver.save prefixes; "" is the prefix of chosen_path/init_from/ itself
CkptNames == {"latest", "weights", "base_weights", ""}

EmptyDir ==
    [exists |-> FALSE, params |-> <<>>, params_old |-> <<>>,
     ckpt |-> [c \in CkptNames |-> <<>>]]
NoObj ==
    [state |-> "none", cls |-> "", s |-> 0, savepath |-> "", wrote |-> {},
     err |-> "", want |-> <<>>, got |-> <<>>, start |-> <<>>]
NoSess == [state |-> "none", owner |-> "", closes |-> 0, w |-> <<>>]

\* a params.json: ok is whether json.load can read it
ParamsFile(ok, by) == <<[ok |-> ok, by |-> by, latent_dim |-> MaxLatent]>>
Readable(file) == file # <<>> /\ file[1].ok

\* what tf.global_variables_initializer can leave in the variables
InitWeights == {0, 1}
\* the variables after the gradient steps of a train() call
Trained(w) == w + 2

\* encode on a fixed input is a function of the variables
Encode(w) == <<"mus", w, "logvars", w>>

InitLife ==
    /\ vae = <<>> /\ IdleTrain /\ IdleInfer
    /\ obj = [i \in Instances |-> NoObj]
    /\ sess = [s \in Sessions |-> NoSess]
    \* what the caller put under chosen_path, and a VAE run directory that is
    \* absent or holds a params.json that does not parse
    /\ \E ck \in {<<>>, <<0>>}, pm \in {<<>>, ParamsFile(TRUE, "VAE"),
                                        ParamsFile(FALSE, "VAE")},
          old \in {<<>>, ParamsFile(FALSE, "VAE")} :
         fs = [d \in Dirs |->
                 IF d = "chosen"
                 THEN [EmptyDir EXCEPT !.exists = TRUE, !.params = pm,
                                       !.ckpt[""] = ck]
                 ELSE IF d = "vae_run" /\ old # <<>>
                      THEN [EmptyDir EXCEPT !.exists = TRUE, !.params = old]
                      ELSE EmptyDir]

\* the caller's tf.Session()
NewSession(s) ==
    /\ sess[s].state = "none"
    /\ \A t \in Sessions : t < s => sess[t].state # "none"
    /\ sess' = [sess EXCEPT ![s] = [NoSess EXCEPT !.state = "open",
                                                  !.owner = "caller"]]
    /\ UNCHANGED <<fs, obj, trainVars, inferVars>>

\* VAE(..., load_from=None) and VAE(..., load_from=<the run directory>)
VAENew(i, s, load_from) ==
    /\ obj[i].state = "none"
    /\ \A j \in Instances : j < i => obj[j].state # "none"
    /\ sess[s].state = "none"
    /\ \A t \in Sessions : t < s => sess[t].state # "none"
    /\ LET d == "vae_run"
           made == [NoObj EXCEPT !.cls = "VAE", !.savepath = d]
       IN  IF ~load_from
           THEN \E w0 \in InitWeights :
                  /\ fs' = [fs EXCEPT ![d].exists = TRUE,
                                      ![d].params = ParamsFile(TRUE, "VAE")]
                  /\ sess' = [sess EXCEPT ![s] =
                               [state |-> "open", owner |-> "instance",
                                closes |-> 0, w |-> <<w0>>]]
                  /\ obj' = [obj EXCEPT ![i] =
                               [made EXCEPT !.state = "live", !.s = s,
                                            !.wrote = {"params.json"}]]
           ELSE IF ~Readable(fs[d].params)
                THEN \* exit(0): no session yet, nothing written
                     /\ obj' = [obj EXCEPT ![i] =
                                  [made EXCEPT !.state = "failed",
                                               !.err = "params.json"]]
                     /\ UNCHANGED <<fs, sess>>
                ELSE \* the params are read; the variables are initialised and
                     \* the Saver is built, and nothing is restored
                     \E w0 \in InitWeights :
                       /\ sess' = [sess EXCEPT ![s] =
                                    [state |-> "open", owner |-> "instance",
                                     closes |-> 0, w |-> <<w0>>]]
                       /\ obj' = [obj EXCEPT ![i] =
                                    [made EXCEPT !.state = "live", !.s = s,
                                                 !.want = fs[d].ckpt["latest"],
                                                 !.got = <<w0>>]]
                       /\ UNCHANGED fs
    /\ UNCHANGED <<trainVars, inferVars>>


\* RetrainVAE(rlpath, ..., init_from=None | <a directory of chosen_path>,
\* with_attrs=..., sess=s): __init__ and the _load_base_weights it calls
RetrainNew(i, s, init_from, with_attrs) ==
    /\ obj[i].state = "none"
    /\ \A j \in Instances : j < i => obj[j].state # "none"
    /\ sess[s].owner = "caller"
    /\ LET d == "rl_run"
           src == "chosen"
           ck == fs[src].ckpt[""]
           made == [NoObj EXCEPT !.cls = "RetrainVAE", !.savepath = d, !.s = s]
           wrote1 == IF with_attrs THEN {} ELSE {"params.json"}
           fs1 == [fs EXCEPT ![d].exists = TRUE,
                             ![d].params = IF with_attrs THEN @
                                           ELSE ParamsFile(TRUE, "RetrainVAE")]
           \* self.save('base_weights'); self.save()
           wrote2 == wrote1 \cup {"base_weights", "weights"}
           fs2 == [fs1 EXCEPT ![d].ckpt["base_weights"] = ck,
                              ![d].ckpt["weights"] = ck]
           Fail(files, written, err) ==
               /\ fs' = files
               /\ obj' = [obj EXCEPT ![i] = [made EXCEPT !.state = "failed",
                                                         !.wrote = written,
                                                         !.err = err]]
           Succeed(files, written, restored) ==
               /\ fs' = files
               /\ obj' = [obj EXCEPT ![i] = [made EXCEPT !.state = "live",
                                                         !.wrote = written,
                                                         !.want = restored,
                                                         !.got = restored]]
       IN  IF ~init_from
           THEN Succeed(fs1, wrote1, <<>>) /\ UNCHANGED sess
           ELSE IF sess[s].state # "open" \/ ck = <<>>
                THEN \* saver.restore raises
                     Fail(fs1, wrote1, "checkpoint") /\ UNCHANGED sess
                ELSE /\ sess' = [sess EXCEPT ![s].w = ck]
                     /\ IF with_attrs
                        THEN IF Readable(fs[src].params)
                             THEN Succeed([fs2 EXCEPT ![d].params = fs[src].params],
                                          wrote2 \cup {"params.json"}, ck)
                             ELSE Fail(fs2, wrote2, "params.json")
                        ELSE IF fs[src].params # <<>>
                             THEN Succeed([fs2 EXCEPT ![d].params_old = fs[src].params],
                                          wrote2 \cup {"params_old.json"}, ck)
                             ELSE Fail(fs2, wrote2, "params.json")
    /\ UNCHANGED <<trainVars, inferVars>>

Usable(i) == obj[i].state = "live" /\ sess[obj[i].s].state = "open"

\* train() as a whole: VAE trains the variables it has and saves 'latest';
\* RetrainVAE runs the initializer, trains and saves 'weights'
Train(i) ==
    /\ Usable(i)
    /\ LET s == obj[i].s
           d == obj[i].savepath
       IN  \E w0 \in IF obj[i].cls = "VAE" THEN {sess[s].w[1]} ELSE InitWeights :
             /\ Trained(w0) <= MaxWeight
             /\ sess' = [sess EXCEPT ![s].w = <<Trained(w0)>>]
             /\ fs' = [fs EXCEPT ![d].ckpt[IF obj[i].cls = "VAE" THEN "latest"
                                           ELSE "weights"] = <<Trained(w0)>>]
             \* what the variables held when train() was called, and what
             \* its first gradient step started from
             /\ obj' = [obj EXCEPT ![i].start = <<[had |-> sess[s].w,
                                                   used |-> w0]>>]
    /\ UNCHANGED <<trainVars, inferVars>>

\* RetrainVAE.save()
Save(i) ==
    /\ Usable(i) /\ obj[i].cls = "RetrainVAE"
    /\ sess[obj[i].s].w # <<>>
    /\ fs' = [fs EXCEPT ![obj[i].savepath].ckpt["weights"] = sess[obj[i].s].w]
    /\ UNCHANGED <<obj, sess, trainVars, inferVars>>

\* RetrainVAE.load()
Load(i) ==
    /\ Usable(i) /\ obj[i].cls = "RetrainVAE"
    /\ LET ck == fs[obj[i].savepath].ckpt["weights"]
       IN  /\ ck # <<>>
           /\ sess' = [sess EXCEPT ![obj[i].s].w = ck]
           /\ obj' = [obj EXCEPT ![i].want = ck, ![i].got = ck]
    /\ UNCHANGED <<fs, trainVars, inferVars>>

\* __del__ once the instance, built or not, is collected
Del(i) ==
    /\ obj[i].state \in {"live", "failed"}
    /\ obj' = [obj EXCEPT ![i].state = "dead"]
    /\ sess' = IF obj[i].s = 0 THEN sess
               ELSE [sess EXCEPT ![obj[i].s].state = "closed",
                                 ![obj[i].s].closes = @ + 1]
    /\ UNCHANGED <<fs, trainVars, inferVars>>

NextLife ==
    \/ \E s \in Sessions : NewSession(s)
    \/ \E i \in Instances, s \in Sessions, load_from \in BOOLEAN :
         VAENew(i, s, load_from)
    \/ \E i \in Instances, s \in Sessions, init_from \in BOOLEAN,
          with_attrs \in BOOLEAN : RetrainNew(i, s, init_from, with_attrs)
    \/ \E i \in Instances : Train(i)
    \/ \E i \in Instances : Save(i)
    \/ \E i \in Instances : Load(i)
    \/ \E i \in Instances : Del(i)

SpecLife == InitLife /\ [][NextLife]_vars

---------------------------------------------------------------------------
(* Properties of train() *)

Range(s) == {s[i] : i \in DOMAIN s}
BagOf(s) == [e \in Range(s) |-> Cardinality({i \in DOMAIN s : s[i] = e})]

RECURSIVE Sum(_)
Sum(s) == IF s = <<>> THEN 0 ELSE Head(s) + Sum(Tail(s))

Ceil(a, b) == (a + b - 1) \div b

InLoop == pc \in {"epoch", "batch", "log", "save", "final", "done"}

\* C1: shuffling only permutes the samples, and when an epoch closes every
\* sample the caller put in the dataset has been fed to a gradient step
\* exactly once: the batch sizes of the epoch sum to the number of samples.
C1_EpochFeedsEverySampleOnce ==
    /\ InLoop => BagOf(dataset.cells) = BagOf(samples)
    /\ pc = "save" => /\ BagOf(fed) = BagOf(samples)
                      /\ Sum(sizes) = Len(samples)

\* an epoch after the first closes on a shuffled dataset of MaxSamples
\* samples cut into a full batch and a smaller last one
C1_Witness ==
    /\ pc = "save" /\ ep = 1
    /\ Len(samples) = MaxSamples /\ batch_size = MaxSamples - 1
    /\ dataset.cells # samples

\* the same for a single image that train() expanded to a batch of one, with
\* more lines than the batch size
C1_WitnessExpanded ==
    /\ pc = "save" /\ vae.cls = "VAE"
    /\ Len(samples) = 1 /\ num_samples = ImgH /\ batch_size < num_samples

\* C2: each epoch is cut into ceil(N/B) non-empty batches of B samples, the
\* last one of 1..B, one gradient step each, and a run that returns has run
\* E * ceil(N/B) gradient steps.
C2_Batches ==
    LET N == Len(samples)
    IN  /\ \A i \in 1..Len(sizes) :
             /\ sizes[i] >= 1 /\ sizes[i] <= batch_size
             /\ i < Len(sizes) => sizes[i] = batch_size
        /\ pc = "save" => Len(sizes) = Ceil(N, batch_size)
        /\ pc = "done" => steps = num_episodes * Ceil(N, batch_size)

EpochSaves == SelectSeq(saves, LAMBDA s : s.at = "epoch")

\* the batches of one epoch: the indices of np.arange(0, num_samples, batch_size)
BatchesPerEpoch == Ceil(num_samples, batch_size)

\* C3: ep epochs being complete, exactly ep end-of-epoch saves have happened,
\* the save of epoch e right after the last gradient step of epoch e and
\* before the first one of epoch e+1; a call that returns has made one per
\* epoch.
C3_CheckpointClosesEachEpoch ==
    InLoop =>
        /\ Len(EpochSaves) = ep
        /\ \A i \in 1..Len(EpochSaves) :
             /\ EpochSaves[i].ep = i - 1
             /\ EpochSaves[i].steps = i * BatchesPerEpoch
        /\ steps >= ep * BatchesPerEpoch
        /\ steps <= (ep + 1) * BatchesPerEpoch
        /\ pc \in {"final", "done"} =>
             ep = num_episodes /\ steps = ep * BatchesPerEpoch

\* RetrainVAE.train has returned from MaxEpochs epochs: one save per epoch
\* and the one it makes after the loop
C3_Witness ==
    /\ pc = "done" /\ vae.cls = "RetrainVAE"
    /\ num_episodes = MaxEpochs /\ Len(EpochSaves) = MaxEpochs
    /\ Len(saves) = MaxEpochs + 1 /\ steps > MaxEpochs

OutOfRange(s) == \E i \in 1..Len(s) : s[i] > 1 \/ s[i] < 0

\* C5: train() on a dataset holding a value outside [0,1] fails before it
\* shuffles, steps, logs or saves.
C5_NonNormalizedFails ==
    (calls > 0 /\ OutOfRange(Flatten(samples))) =>
        /\ pc = "failed"
        /\ steps = 0 /\ csv = <<>> /\ saves = <<>>

\* the rows the current train() call wrote
CallRows == SubSeq(csv, log_start + 1, Len(csv))

Ordered(rows) ==
    \A i \in 1..(Len(rows) - 1) :
        /\ rows[i + 1][2] >= rows[i][2]
        /\ rows[i + 1][3] = rows[i][3] + 1

IsPrefix(s, t) == Len(s) <= Len(t) /\ SubSeq(t, 1, Len(s)) = s

C9_RowPerStep ==
    /\ Len(CallRows) = IF pc = "log" THEN steps - 1 ELSE steps
    /\ \A i \in 1..Len(csv) : Len(csv[i]) = csv_header
    /\ Ordered(CallRows)

\* C9 (amended): the log only grows; a train() call has written one row per
\* gradient step it ran, the row of a step before the next step; every row
\* has the header's 5 + latent_dim fields; over the rows of one train()
\* call the episode never decreases and the batch index grows by one.
C9_LogOfOneCall == []C9_RowPerStep /\ [][IsPrefix(csv, csv')]_vars

\* C9 as stated: the whole log is ordered, every row's batch index being one
\* more than that of the row before
C9_WholeLogOrdered == C9_RowPerStep /\ Ordered(csv)

\* a second train() call has returned and both calls logged their epochs
C9_Witness ==
    /\ pc = "done" /\ calls = 2
    /\ log_start > 1 /\ Len(csv) > log_start + 1
    /\ csv[Len(csv)][2] > csv[log_start + 1][2]

---------------------------------------------------------------------------
(* Properties of the inference API *)

\* the per-sample input shape (H, W, C) the instance is configured with:
\* params.json holds it without the batch axis
ConfiguredSampleShape(self) ==
    IF self.input_shape.py = "tuple" THEN Tail(self.input_shape.dims)
    ELSE self.input_shape.dims

\* C6: decode fails, the graph not run, on a last dimension other than
\* latent_dim; it runs the graph on a rank-1 vector of length latent_dim as a
\* batch of one and on a rank-2 input of width latent_dim as it is.
C6_DecodeChecksWidth ==
    (arg # <<>> /\ arg.op = "decode" /\ Rank(arg.in) >= 1) =>
        LET zs == arg.in
            width == zs.shape[Rank(zs)]
        IN  /\ width # vae.latent_dim => ret.err # "" /\ ~ret.ran
            /\ (Rank(zs) = 1 /\ width = vae.latent_dim) =>
                 ret.ran /\ ret.val = ExpandDimsFirst(zs)
            /\ (Rank(zs) = 2 /\ width = vae.latent_dim) =>
                 ret.ran /\ ret.val = zs

\* C8 on inputs with no value above 1: rank 2, 3 and 4 come back with rank 4
\* and the same elements, (H,W) as (1,H,W,1), the configured (H,W,C) as
\* (1,H,W,C), another rank 3 (N,H,W) as (N,H,W,1), rank 4 unchanged; every
\* other rank fails.
C8_PreprocessCompletesRank ==
    (arg # <<>> /\ arg.op = "_preprocess_batch" /\ NpMax(arg.in) <= 1) =>
        LET b == arg.in
            expected ==
                IF Rank(b) = 2 THEN <<1>> \o b.shape \o <<1>>
                ELSE IF Rank(b) = 3
                     THEN IF b.shape = ConfiguredSampleShape(vae)
                          THEN <<1>> \o b.shape
                          ELSE b.shape \o <<1>>
                     ELSE b.shape
        IN  IF Rank(b) \in {2, 3, 4}
            THEN /\ ret.err = ""
                 /\ ret.val.shape = expected
                 /\ Flatten(ret.val.cells) = Flatten(b.cells)
            ELSE ret.err # ""

---------------------------------------------------------------------------
(* Properties of construction, persistence and teardown *)

\* C4: an instance that loaded a saved checkpoint holds the saved values, and
\* encode on a fixed input returns what it returned in the saved instance.
C4_LoadRestoresSavedWeights ==
    \A i \in Instances :
        (obj[i].state = "live" /\ obj[i].want # <<>>) =>
            /\ obj[i].got = obj[i].want
            /\ Encode(obj[i].got[1]) = Encode(obj[i].want[1])

\* C7: a construction that fails on a missing or unreadable params.json has
\* written nothing to the run directory, and the instance is not usable.
C7_FailedLoadWritesNothing ==
    \A i \in Instances :
        (obj[i].state \in {"failed", "dead"} /\ obj[i].err = "params.json") =>
            obj[i].wrote = {}

\* C10: no two live instances hold the same session, no live instance holds
\* a closed one, teardown closes no session the caller made, and no session
\* is closed twice.
C10_SessionOwnedByOneInstance ==
    /\ \A i, j \in Instances :
         (i # j /\ obj[i].state = "live" /\ obj[j].state = "live") =>
             obj[i].s # obj[j].s
    /\ \A i \in Instances :
         obj[i].state = "live" => sess[obj[i].s].state = "open"
    /\ \A s \in Sessions :
         /\ sess[s].closes <= 1
         /\ sess[s].owner = "caller" => sess[s].closes = 0

---------------------------------------------------------------------------
(* The losses. Values are fixed-point numbers, in thousandths.             *)

Fix(v) == v * 1000

\* tf.exp / K.exp of a log-variance of 0 or 1
Exp(lv) == IF lv = 0 THEN Fix(1) ELSE 2718

\* tf.square / K.square
Square(mu) == Fix(mu * mu)

KlInnerWithoutOne(mu, lv) == Fix(lv) - Square(mu) - Exp(lv)

\* 1 + logvar - mean^2 - exp(logvar)
KlInner(mu, lv) == Fix(1) + Fix(lv) - Square(mu) - Exp(lv)

\* -0.5 * t
NegHalf(t) == (0 - t) \div 2

\* tf.reduce_mean / K.mean / np.mean of a vector
ReduceMean(s) == Sum(s) \div Len(s)

\* the losses of VAE.__init__ for a batch: stats[b][j] is <<mean, logvar>> of
\* example b in latent dimension j, rec the mean squared error
VAELoss(stats, beta, rec) ==
    LET B == Len(stats)
        L == Len(stats[1])
        dkl_j == [b \in 1..B |->
                    [j \in 1..L |-> NegHalf(KlInner(stats[b][j][1], stats[b][j][2]))]]
        mean_kl_j == [j \in 1..L |-> ReduceMean([b \in 1..B |-> dkl_j[b][j]])]
        dkl_loss == Sum(mean_kl_j)
        scaled_kl == beta * dkl_loss
    IN  [kl_j |-> mean_kl_j, kl |-> dkl_loss, rec |-> rec,
         total |-> rec + scaled_kl]

\* the losses of RetrainVAE.__init__: frames[i] are the statistics of
\* sub-network i, re_loss[b] the reconstruction loss of example b
RetrainLoss(frames, beta, re_loss) ==
    LET k == Len(frames)
        B == Len(frames[1])
        L == Len(frames[1][1])
        kls == [i \in 1..k |->
                  [j \in 1..L |->
                     NegHalf(ReduceMean([b \in 1..B |->
                         KlInner(frames[i][b][j][1], frames[i][b][j][2])]))]]
        kl_loss == [j \in 1..L |-> ReduceMean([i \in 1..k |-> kls[i][j]])]
        vae_loss == ReduceMean([b \in 1..B |-> re_loss[b] + beta * Sum(kl_loss)])
    IN  [kl_j |-> kl_loss, kl |-> Sum(kl_loss), rec |-> ReduceMean(re_loss),
         total |-> vae_loss]

\* <<mean, logvar>> of one example in one latent dimension
CellStats == {<<0, 0>>, <<1, 0>>, <<0, 1>>}
Stats(B, L) == [1..B -> [1..L -> CellStats]]
ZeroStats(B, L) == [b \in 1..B |-> [j \in 1..L |-> <<0, 0>>]]
OffStats(B, L) == [b \in 1..B |-> [j \in 1..L |-> <<1, 1>>]]

Betas == {0, 1, 4}
RecLosses == {0, 250}

LossInstances ==
    { VAEInit(<<ImgH, ImgH, 1>>, ld, <<>>) : ld \in 1..MaxLatent }
    \cup { RetrainInit(<<ImgH, ImgH, 1>>, ld, k, <<>>) :
             ld \in 1..MaxLatent, k \in 1..2 }

\* the statistics of the k sub-networks: any of the first one, and for each
\* other one those of the first, all zero, or all off zero
FramesOf(self, B) ==
    { [i \in 1..self.k |-> IF i = 1 THEN f ELSE g] :
        f \in Stats(B, self.z_dim),
        g \in IF self.k = 1 THEN {<<>>}
              ELSE {ZeroStats(B, self.z_dim), OffStats(B, self.z_dim)} }

\* an instance, and a batch of latent statistics its loss is evaluated on
InitLoss ==
    /\ vae \in LossInstances
    /\ \E B \in 1..MaxExamples, beta \in Betas, r \in RecLosses :
         \E frames \in FramesOf(vae, B) :
            arg = [op |-> "loss", frames |-> frames, beta |-> beta,
                   rec |-> [b \in 1..B |-> IF b = 1 THEN r ELSE 0]]
    /\ ret = <<>>
    /\ IdleTrain /\ IdleLife

VAELossRun ==
    /\ vae.cls = "VAE" /\ ret = <<>>
    /\ ret' = VAELoss(arg.frames[1], arg.beta, arg.rec[1])
    /\ UNCHANGED <<trainVars, lifeVars, arg>>

RetrainLossRun ==
    /\ vae.cls = "RetrainVAE" /\ ret = <<>>
    /\ ret' = RetrainLoss(arg.frames, arg.beta, arg.rec)
    /\ UNCHANGED <<trainVars, lifeVars, arg>>

NextLoss == VAELossRun \/ RetrainLossRun

SpecLoss == InitLoss /\ [][NextLoss]_vars

---------------------------------------------------------------------------
(* Properties of the losses *)

AllZero(frames) ==
    \A i \in DOMAIN frames : \A b \in DOMAIN frames[i] :
        \A j \in DOMAIN frames[i][b] : frames[i][b][j] = <<0, 0>>

\* C11: with mean 0 and logvar 0 in every latent dimension of every example
\* (and every sub-network), every per-dimension KL term is 0, the KL loss is
\* 0 and the total loss is the reconstruction loss, whatever beta is.
C11_KlZeroAtStandardNormal ==
    (ret # <<>> /\ AllZero(arg.frames)) =>
        /\ \A j \in DOMAIN ret.kl_j : ret.kl_j[j] = 0
        /\ ret.kl = 0
        /\ ret.total = ret.rec

\* the stacked variant on a full batch with a weighted KL term and a
\* reconstruction loss that is not zero
C11_Witness ==
    /\ ret # <<>> /\ AllZero(arg.frames)
    /\ vae.cls = "RetrainVAE" /\ vae.k = 2
    /\ Len(arg.frames[1]) = MaxExamples /\ arg.beta > 1 /\ ret.rec > 0

---------------------------------------------------------------------------
(* Properties of training after a load *)

\* C12: when an instance that restored a checkpoint (init_from) is trained,
\* the first gradient step of train() starts from the values the variables
\* held when train() was called: nothing in between replaces them.
C12_WarmStartKeepsRestoredWeights ==
    \A i \in Instances :
        (obj[i].cls = "RetrainVAE" /\ obj[i].want # <<>>
         /\ obj[i].start # <<>> /\ obj[i].start[1].had # <<>>) =>
            obj[i].start[1].used = obj[i].start[1].had[1]

---------------------------------------------------------------------------
(* Properties of the progress summary *)

\* C13: every progress summary is computed without failing, from the number
\* of batches of the whole run (epochs times ceil(samples / batch size)) and
\* the number of batches processed so far; the batches remaining are never
\* negative and the percentage done is never above 100.
C13_EtaCountsAllBatches ==
    eta # <<>> =>
        LET total == num_episodes * Ceil(num_samples, batch_size)
        IN  /\ eta[1].err = ""
            /\ eta[1].total_batches = total
            /\ eta[1].nb = steps
            /\ eta[1].steps2go = total - steps
            /\ eta[1].steps2go >= 0
            /\ eta[1].perc <= 100

---------------------------------------------------------------------------
(* Construction: the hyperparameters the instance holds as attributes, and *)
(* those its graph and loss are built with.                                *)

Networks == {"atari", "pendulum"}
HyperBetas == {1, 4}

\* network, latent_dim and beta as the constructor is given them, and as a
\* params.json holds them
Hypers == [network : Networks, latent_dim : 1..MaxLatent, beta : HyperBetas]
\* what build_network built: the variables of a checkpoint have its names
\* and shapes
Graphs == [network : Networks, latent_dim : 1..MaxLatent]
GraphOf(h) == [network |-> h.network, latent_dim |-> h.latent_dim]

\* the params.json next to a checkpoint saved from graph g: absent, not
\* parseable, or the record of the run that saved the checkpoint
HyperFiles(g) ==
    {<<>>, <<[ok |-> FALSE]>>}
    \cup { <<[ok |-> TRUE, network |-> g.network,
              latent_dim |-> g.latent_dim, beta |-> b]>> : b \in HyperBetas }

Built(state, attrs, graph, loss_beta) ==
    [state |-> state, network |-> attrs.network,
     latent_dim |-> attrs.latent_dim, beta |-> attrs.beta,
     built |-> [network |-> graph.network, latent_dim |-> graph.latent_dim,
                beta |-> loss_beta]]

\* VAE.__init__: setattr copies the loaded keys over the attributes, the
\* graph is built from the attributes and the KL term is weighted by the
\* constructor's argument
VAEHyper(a, load_from, file) ==
    IF ~load_from THEN Built("live", a, GraphOf(a), a.beta)
    ELSE IF ~Readable(file) THEN Built("exit", a, GraphOf(a), a.beta)
    ELSE Built("live", file[1], GraphOf(file[1]), a.beta)

\* RetrainVAE.__init__: the graph is built from the constructor's arguments,
\* _load_base_weights restores the checkpoint into it and with with_attrs
\* copies the loaded keys over the attributes, and the loss is built last
RetrainHyper(a, init_from, with_attrs, ckpt, file) ==
    IF ~init_from THEN Built("live", a, GraphOf(a), a.beta)
    ELSE IF ckpt # GraphOf(a)
    THEN \* saver.restore: a variable of the graph is missing or has
         \* another shape in the checkpoint
         Built("failed", a, GraphOf(a), a.beta)
    ELSE IF with_attrs
    THEN IF Readable(file)
         THEN Built("live", file[1], GraphOf(a), file[1].beta)
         ELSE Built("failed", a, GraphOf(a), a.beta)
    ELSE IF file # <<>>
    THEN Built("live", a, GraphOf(a), a.beta)
    ELSE \* copyfile of a params.json that is not there
         Built("failed", a, GraphOf(a), a.beta)

\* constructor arguments, and the directory to load from
InitHyper ==
    /\ vae = <<>>
    /\ \E a \in Hypers, g \in Graphs :
         \E file \in HyperFiles(g) :
            arg = [op |-> "__init__", args |-> a, ckpt |-> g, file |-> file]
    /\ ret = <<>>
    /\ IdleTrain /\ IdleLife

VAEBuild(load_from) ==
    /\ vae = <<>>
    /\ vae' = VAEHyper(arg.args, load_from, arg.file)
    /\ ret' = [cls |-> "VAE", loaded |-> load_from]
    /\ UNCHANGED <<dataset, pc, batch_size, num_episodes, num_samples, ep, n,
                   idx, nb, x, csv_header, csv, saves, steps, fed, sizes,
                   samples, calls, budget, log_start, print_freq, eta, arg,
                   lifeVars>>

RetrainBuild(init_from, with_attrs) ==
    /\ vae = <<>>
    /\ vae' = RetrainHyper(arg.args, init_from, with_attrs, arg.ckpt, arg.file)
    /\ ret' = [cls |-> "RetrainVAE", loaded |-> init_from /\ with_attrs]
    /\ UNCHANGED <<dataset, pc, batch_size, num_episodes, num_samples, ep, n,
                   idx, nb, x, csv_header, csv, saves, steps, fed, sizes,
                   samples, calls, budget, log_start, print_freq, eta, arg,
                   lifeVars>>

NextHyper ==
    \/ \E load_from \in BOOLEAN : VAEBuild(load_from)
    \/ \E init_from \in BOOLEAN, with_attrs \in BOOLEAN :
         RetrainBuild(init_from, with_attrs)

SpecHyper == InitHyper /\ [][NextHyper]_vars

---------------------------------------------------------------------------
(* Properties of the hyperparameter record *)

\* C14: once an instance is constructed, its latent_dim, network and beta
\* are those its graph and its loss were built with.
C14_RecordMatchesGraph ==
    (vae # <<>> /\ vae.state = "live") =>
        /\ vae.latent_dim = vae.built.latent_dim
        /\ vae.network = vae.built.network
        /\ vae.beta = vae.built.beta

---------------------------------------------------------------------------
(* Properties of the run directory *)

\* C15: whenever the run directory of an instance holds a checkpoint, it
\* holds a params.json.
C15_CheckpointHasParams ==
    \A i \in Instances :
        obj[i].state # "none" =>
            LET d == fs[obj[i].savepath]
            IN  (\E c \in CkptNames : d.ckpt[c] # <<>>) => d.params # <<>>

====
